---- MODULE Spec2Model ----
(***************************************************************************)
(* The two batch orchestrators of tt-zork1:                                *)
(*   zork_persistent.main  - in-process engine (zork_tt bindings)          *)
(*   zork_python.main      - one engine process per batch                  *)
(* Text is modelled by TLA+ strings (Len, SubSeq and \o act on them).      *)
(* The box-drawing characters of the source are written in ASCII:          *)
(*   U+2554 (box top-left) "{"   U+255A (box bottom-left) "}"              *)
(*   U+2551 (box vertical) "|"                                             *)
(***************************************************************************)
EXTENDS Integers, Sequences, FiniteSets, TLC

\* ------------------------------------------------------------ configuration

\* MAX_BATCHES is 50 in both files; the model runs it at a small value.
MAX_BATCHES == 3
INSTRUCTIONS_PER_BATCH == 100
\* Consecutive sessions of one orchestrator sharing the state file.
MaxSessions == 2
\* External interrupts (KeyboardInterrupt) delivered to one session.
MaxInterrupts == 1

BoxTop == "{"
BoxBottom == "}"
BoxSide == "|"

\* ------------------------------------------------------------ Python str

Char(s, i) == SubSeq(s, i, i)

\* sub in s
Contains(s, sub) ==
    \E i \in 1..(Len(s) - Len(sub) + 1) : SubSeq(s, i, i + Len(sub) - 1) = sub

\* s.startswith(p)
StartsWith(s, p) == Len(s) >= Len(p) /\ SubSeq(s, 1, Len(p)) = p

IsSpace(c) == c \in {" ", "\n", "\t"}

RECURSIVE LStrip(_)
LStrip(s) ==
    IF s = "" THEN s
    ELSE IF IsSpace(Char(s, 1)) THEN LStrip(SubSeq(s, 2, Len(s))) ELSE s

RECURSIVE RStrip(_)
RStrip(s) ==
    IF s = "" THEN s
    ELSE IF IsSpace(Char(s, Len(s))) THEN RStrip(SubSeq(s, 1, Len(s) - 1)) ELSE s

\* s.strip()
Strip(s) == RStrip(LStrip(s))

\* s.split('\n'): the pieces between consecutive newlines
Split(s) ==
    LET nl == {i \in 1..Len(s) : Char(s, i) = "\n"}
        n == Cardinality(nl)
        Cut(k) == IF k = 0 THEN 0
                  ELSE IF k = n + 1 THEN Len(s) + 1
                  ELSE CHOOSE i \in nl : Cardinality({j \in nl : j < i}) = k - 1
    IN  [k \in 1..(n + 1) |-> SubSeq(s, Cut(k - 1) + 1, Cut(k) - 1)]

RECURSIVE Join(_)
\* '\n'.join(lines)
Join(lines) ==
    IF Len(lines) = 0 THEN ""
    ELSE IF Len(lines) = 1 THEN lines[1]
    ELSE lines[1] \o "\n" \o Join(Tail(lines))

\* ------------------------------------------------------------ frame parsers

\* zork_persistent.main, line 128
IsStartP(line) == Contains(line, "ZORK OUTPUT") \/ Contains(line, "interpret(")

\* zork_persistent.main, line 132
HasBorderP(line) == \E c \in {BoxTop, BoxBottom, BoxSide, "="} : Contains(line, c)

RECURSIVE ScanP(_, _, _, _)
ScanP(lines, i, in_output, text_lines) ==
    IF i > Len(lines) THEN text_lines
    ELSE IF IsStartP(lines[i]) THEN ScanP(lines, i + 1, TRUE, text_lines)
    ELSE IF in_output /\ Strip(lines[i]) # "" /\ ~HasBorderP(lines[i])
         THEN ScanP(lines, i + 1, in_output, Append(text_lines, lines[i]))
    ELSE ScanP(lines, i + 1, in_output, text_lines)

\* batch_text of zork_persistent.main
BatchTextP(output) == Strip(Join(ScanP(Split(output), 1, FALSE, <<>>)))

IsTerminalMutP(output, b) == b > MAX_BATCHES
\* the break test of zork_persistent.main (batch already incremented)
IsTerminalP(output, b) == Contains(output, "Game complete") \/ b > MAX_BATCHES

IsEndMutY(line) == FALSE
\* run_zork_batch, line 98: the bottom border ends the section
IsEndY(line) == StartsWith(line, BoxBottom)

RECURSIVE ScanY(_, _, _, _)
ScanY(lines, i, in_output, game_text) ==
    IF i > Len(lines) THEN game_text
    ELSE IF Contains(lines[i], "ACCUMULATED ZORK OUTPUT")
         THEN ScanY(lines, i + 1, TRUE, game_text)
    ELSE IF in_output
         THEN IF IsEndY(lines[i]) THEN game_text
              ELSE IF ~StartsWith(lines[i], BoxTop) /\ ~StartsWith(lines[i], BoxSide)
                   THEN ScanY(lines, i + 1, in_output, Append(game_text, lines[i]))
              ELSE ScanY(lines, i + 1, in_output, game_text)
    ELSE ScanY(lines, i + 1, in_output, game_text)

\* output_text of run_zork_batch
OutputTextY(output) ==
    IF Contains(output, "ACCUMULATED ZORK OUTPUT")
    THEN Strip(Join(ScanY(Split(output), 1, FALSE, <<>>)))
    ELSE ""

\* is_finished of run_zork_batch
IsFinishedY(output, batch_num) ==
    Contains(output, "Game complete") \/ batch_num >= MAX_BATCHES

LoopGuardMut(b) == b <= MAX_BATCHES + 1
\* while batch <= MAX_BATCHES, in both files
LoopGuard(b) == b <= MAX_BATCHES

\* What the engine may print in one batch.
RawOutputs ==
    { "{==}\n| ACCUMULATED ZORK OUTPUT\n{==}\nWest\n}==}\n",
      "boot\n",
      "| ACCUMULATED ZORK OUTPUT\nDone\n}==}\nGame complete\n",
      "Game complete\n" }

\* What an engine process that ends with a non-zero return code may have printed.
FailedOutputs == {"", "Game complete\n"}

\* What get_state may return (the engine's state is opaque bytes).
Blobs == {"AB", "CD"}

\* ------------------------------------------------------------ state

VARIABLES
    prog,               \* "persistent" (zork_persistent.py) or "python" (zork_python.py)
    gameFile,           \* Path(GAME_FILE).exists()
    exeFile,            \* Path(ZORK_EXECUTABLE).exists()
    stateFile,          \* STATE_FILE on disk: [exists, data]
    pc,                 \* position of main
    device,             \* zork_persistent: "unbound" or "handle"
    batch,
    accumulated_output,
    output,             \* persistent: raw output; python: output_text
    finished,           \* python: second component of run_zork_batch's result
    state,              \* persistent: the blob read or exported
    pending,            \* persistent: what the try statement does after its finally
    outcome,            \* how main ended: [kind, value]
    calls,              \* engine and storage operations of the session, in order
    engineLog,          \* what the engine answered to each batch, in order
    payloads,           \* the payload parsed from each answered batch, in order
    printed,            \* what main printed (failures, completion status, report)
    interrupts,         \* positions at which a KeyboardInterrupt arrived
    session,            \* number of the running session
    stateFile0,         \* the state file when the session started
    prev,               \* class and observable result of the previous session
    exported            \* the blobs get_state returned in earlier sessions

vars == <<prog, gameFile, exeFile, stateFile, pc, device, batch, accumulated_output,
          output, finished, state, pending, outcome, calls, engineLog, payloads,
          printed, interrupts, session, stateFile0, prev, exported>>

env == <<prog, gameFile, exeFile>>
hist == <<session, stateFile0, prev, exported>>

Absent == [exists |-> FALSE, data |-> ""]
File(b) == [exists |-> TRUE, data |-> b]

Call(op, arg, ok) == [op |-> op, arg |-> arg, ok |-> ok]
\* err: "" (output returned), "returned" (non-zero return code), "raised"
Answer(ok, raw, err) == [ok |-> ok, raw |-> raw, err |-> err]
Msg(tag, what, n, text) == [tag |-> tag, what |-> what, n |-> n, text |-> text]
Fail(what) == Msg("fail", what, 0, "")
GameFinished(n) == Msg("finished", "", n, "")
Report(text, n) == Msg("report", "", n, text)

Running == [kind |-> "running", value |-> 0]
Return(v) == [kind |-> "return", value |-> v]
Raise(e) == [kind |-> e, value |-> 0]

StartMut(p) == IF p = "persistent" THEN "p_init" ELSE "y_check_exe"
\* the first check of main
Start(p) == IF p = "persistent" THEN "p_check_game" ELSE "y_check_exe"

Count(op) == Cardinality({i \in 1..Len(calls) : calls[i].op = op})

RECURSIVE StatusOf(_)
\* the completion status a caller reads: which status lines, with which counts
StatusOf(msgs) ==
    IF Len(msgs) = 0 THEN <<>>
    ELSE IF msgs[1].tag \in {"finished", "report"}
         THEN <<[tag |-> msgs[1].tag, n |-> msgs[1].n]>> \o StatusOf(Tail(msgs))
    ELSE StatusOf(Tail(msgs))

Observable == [outcome |-> outcome, status |-> StatusOf(printed)]

SentinelSeen == \E i \in 1..Len(engineLog) :
                    engineLog[i].ok /\ Contains(engineLog[i].raw, "Game complete")
AllOk == \A i \in 1..Len(engineLog) : engineLog[i].ok
SessionClass ==
    IF AllOk /\ SentinelSeen THEN "sentinel"
    ELSE IF AllOk /\ Len(engineLog) = MAX_BATCHES THEN "bounded"
    ELSE "other"

NoPrev == [class |-> "none", obs |-> [outcome |-> Running, status |-> <<>>]]

Init ==
    /\ prog \in {"persistent", "python"}
    /\ gameFile \in BOOLEAN
    /\ exeFile \in (IF prog = "python" THEN BOOLEAN ELSE {TRUE})
    /\ stateFile \in {Absent} \cup {File(b) : b \in Blobs}
    /\ pc = Start(prog)
    /\ device = "unbound"
    /\ batch = 0
    /\ accumulated_output = ""
    /\ output = ""
    /\ finished = FALSE
    /\ state = ""
    /\ pending = "none"
    /\ outcome = Running
    /\ calls = <<>>
    /\ engineLog = <<>>
    /\ payloads = <<>>
    /\ printed = <<>>
    /\ interrupts = <<>>
    /\ session = 1
    /\ stateFile0 = stateFile
    /\ prev = NoPrev
    /\ exported = IF prog = "persistent" /\ stateFile.exists THEN {stateFile.data} ELSE {}

\* main ends: by return v, or by an exception leaving it
End(o) == /\ outcome' = o
          /\ pc' = "done"

\* ------------------------------------------------------------ zork_persistent.main

P_check_game ==
    /\ pc = "p_check_game"
    /\ IF ~gameFile
       THEN /\ printed' = Append(printed, Fail("game_file"))
            /\ End(Return(1))
       ELSE /\ pc' = "p_init"
            /\ UNCHANGED <<printed, outcome>>
    /\ UNCHANGED <<env, hist, payloads, stateFile, device, batch, accumulated_output, output,
                   finished, state, pending, calls, engineLog, interrupts>>

P_init_device ==
    /\ pc = "p_init"
    /\ \E ok \in BOOLEAN :
          /\ calls' = Append(calls, Call("init_device", "", ok))
          /\ IF ok
             THEN /\ device' = "handle"
                  /\ pc' = "p_init_done"
                  /\ UNCHANGED <<printed, outcome>>
             ELSE /\ printed' = Append(printed, Fail("init_device"))
                  /\ End(Return(1))
                  /\ UNCHANGED device
    /\ UNCHANGED <<env, hist, payloads, stateFile, batch, accumulated_output, output,
                   finished, state, pending, engineLog, interrupts>>

\* lines 76-79: the handle is bound, the try/finally of line 84 is not yet entered
P_init_done ==
    /\ pc = "p_init_done"
    /\ pc' = "p_load_game"
    /\ UNCHANGED <<env, hist, payloads, stateFile, device, batch, accumulated_output, output,
                   finished, state, pending, outcome, calls, engineLog, printed,
                   interrupts>>

LoadFailedPcMut == "p_closed"
\* `return 1` of line 95 is inside the try of line 84: its finally runs first
LoadFailedPc == "p_finally"

P_load_game ==
    /\ pc = "p_load_game"
    /\ \E ok \in BOOLEAN :
          /\ calls' = Append(calls, Call("load_game", "", ok))
          /\ IF ok
             THEN /\ pc' = "p_check_state"
                  /\ UNCHANGED <<printed, pending>>
             ELSE /\ printed' = Append(printed, Fail("load_game"))
                  /\ pending' = "return1"
                  /\ pc' = LoadFailedPc
    /\ UNCHANGED <<env, hist, payloads, stateFile, device, batch, accumulated_output, output,
                   finished, state, outcome, engineLog, interrupts>>

P_check_state ==
    /\ pc = "p_check_state"
    /\ pc' = IF stateFile.exists THEN "p_read_state" ELSE "p_loop_init"
    /\ UNCHANGED <<env, hist, payloads, stateFile, device, batch, accumulated_output, output,
                   finished, state, pending, outcome, calls, engineLog, printed,
                   interrupts>>

\* open(STATE_FILE, "rb") and f.read(): an OSError is caught by no handler
P_read_state ==
    /\ pc = "p_read_state"
    /\ \E ok \in BOOLEAN :
          /\ calls' = Append(calls, Call("read_state_file", "", ok))
          /\ IF ok
             THEN /\ state' = stateFile.data
                  /\ pc' = "p_set_state"
                  /\ UNCHANGED pending
             ELSE /\ pending' = "Exception"
                  /\ pc' = "p_finally"
                  /\ UNCHANGED state
    /\ UNCHANGED <<env, hist, payloads, stateFile, device, batch, accumulated_output, output,
                   finished, outcome, engineLog, printed, interrupts>>

\* zork_tt.set_state(device, state): an exception is caught by no handler
P_set_state ==
    /\ pc = "p_set_state"
    /\ \E ok \in BOOLEAN :
          /\ calls' = Append(calls, Call("set_state", state, ok))
          /\ IF ok
             THEN /\ pc' = "p_loop_init"
                  /\ UNCHANGED pending
             ELSE /\ pending' = "Exception"
                  /\ pc' = "p_finally"
    /\ UNCHANGED <<env, hist, payloads, stateFile, device, batch, accumulated_output, output,
                   finished, state, outcome, engineLog, printed, interrupts>>

P_loop_init ==
    /\ pc = "p_loop_init"
    /\ accumulated_output' = ""
    /\ batch' = 1
    /\ pc' = "p_while"
    /\ UNCHANGED <<env, hist, payloads, stateFile, device, output, finished, state, pending,
                   outcome, calls, engineLog, printed, interrupts>>

P_while ==
    /\ pc = "p_while"
    /\ pc' = IF LoopGuard(batch) THEN "p_execute_batch" ELSE "p_get_state"
    /\ UNCHANGED <<env, hist, payloads, stateFile, device, batch, accumulated_output, output,
                   finished, state, pending, outcome, calls, engineLog, printed,
                   interrupts>>

ExecFailedPcMut == "p_report"
ExecFailedCountedPc == "p_increment"
\* where the handler of line 155 sends control: break, then the save of line 159
ExecFailedPc == "p_get_state"

P_execute_batch ==
    /\ pc = "p_execute_batch"
    /\ \/ \E r \in RawOutputs :
             /\ calls' = Append(calls, Call("execute_batch", "", TRUE))
             /\ output' = r
             /\ engineLog' = Append(engineLog, Answer(TRUE, r, ""))
             /\ pc' = "p_extract"
             /\ UNCHANGED printed
       \/ /\ calls' = Append(calls, Call("execute_batch", "", FALSE))
          /\ engineLog' = Append(engineLog, Answer(FALSE, "", "raised"))
          /\ printed' = Append(printed, Fail("execute_batch"))
          /\ pc' = ExecFailedPc
          /\ UNCHANGED output
    /\ UNCHANGED <<env, hist, payloads, stateFile, device, batch, accumulated_output,
                   finished, state, pending, outcome, interrupts>>

\* lines 136-137
AccumulateMutP(acc, out) ==
    IF BatchTextP(out) # "" THEN BatchTextP(out) \o "\n" ELSE acc
\* lines 136-137
AccumulateP(acc, out) ==
    IF BatchTextP(out) # "" THEN acc \o BatchTextP(out) \o "\n" ELSE acc

P_extract ==
    /\ pc = "p_extract"
    /\ accumulated_output' = AccumulateP(accumulated_output, output)
    /\ payloads' = Append(payloads, BatchTextP(output))
    /\ pc' = "p_increment"
    /\ UNCHANGED <<env, hist, stateFile, device, batch, output, finished, state,
                   pending, outcome, calls, engineLog, printed, interrupts>>

P_increment ==
    /\ pc = "p_increment"
    /\ batch' = batch + 1
    /\ pc' = "p_check_finished"
    /\ UNCHANGED <<env, hist, payloads, stateFile, device, accumulated_output, output, finished,
                   state, pending, outcome, calls, engineLog, printed, interrupts>>

P_check_finished ==
    /\ pc = "p_check_finished"
    /\ IF IsTerminalP(output, batch)
       THEN /\ printed' = Append(printed, GameFinished(batch - 1))
            /\ pc' = "p_get_state"
       ELSE /\ pc' = "p_while"
            /\ UNCHANGED printed
    /\ UNCHANGED <<env, hist, payloads, stateFile, device, batch, accumulated_output, output,
                   finished, state, pending, outcome, calls, engineLog, interrupts>>

SaveFailedPcMut == "p_finally"
\* where the handler of line 167 sends control: on to the report of line 170
SaveFailedPc == "p_report"

P_get_state ==
    /\ pc = "p_get_state"
    /\ \/ \E b \in Blobs :
             /\ calls' = Append(calls, Call("get_state", "", TRUE))
             /\ state' = b
             /\ pc' = "p_write_state"
             /\ UNCHANGED printed
       \/ /\ calls' = Append(calls, Call("get_state", "", FALSE))
          /\ printed' = Append(printed, Fail("save"))
          /\ pc' = SaveFailedPc
          /\ UNCHANGED state
    /\ UNCHANGED <<env, hist, payloads, stateFile, device, batch, accumulated_output, output,
                   finished, pending, outcome, engineLog, interrupts>>

\* open(STATE_FILE, "wb") truncates the file; f.write may fail part way
P_write_state ==
    /\ pc = "p_write_state"
    /\ \/ /\ calls' = Append(calls, Call("write_state_file", state, TRUE))
          /\ stateFile' = File(state)
          /\ printed' = Append(printed, Msg("saved", "", 0, ""))
          /\ pc' = "p_report"
       \/ /\ calls' = Append(calls, Call("write_state_file", state, FALSE))
          /\ \/ UNCHANGED stateFile                                       \* open fails
             \/ \E n \in 0..(Len(state) - 1) :                            \* write fails
                   stateFile' = File(SubSeq(state, 1, n))
          /\ printed' = Append(printed, Fail("save"))
          /\ pc' = SaveFailedPc
    /\ UNCHANGED <<env, hist, payloads, device, batch, accumulated_output, output, finished,
                   state, pending, outcome, engineLog, interrupts>>

P_report ==
    /\ pc = "p_report"
    /\ printed' = Append(printed, Report(accumulated_output, batch - 1))
    /\ pc' = "p_finally"
    /\ UNCHANGED <<env, hist, payloads, stateFile, device, batch, accumulated_output, output,
                   finished, state, pending, outcome, calls, engineLog, interrupts>>

\* lines 184-185, before the inner try
P_finally ==
    /\ pc = "p_finally"
    /\ pc' = "p_close_device"
    /\ UNCHANGED <<env, hist, payloads, stateFile, device, batch, accumulated_output, output,
                   finished, state, pending, outcome, calls, engineLog, printed,
                   interrupts>>

AfterCloseMutPc == "p_get_state"
\* close_device is the last statement of the finally clause
AfterClosePc == "p_closed"

P_close_device ==
    /\ pc = "p_close_device"
    /\ \E ok \in BOOLEAN :
          /\ calls' = Append(calls, Call("close_device", "", ok))
          /\ printed' = IF ok THEN printed ELSE Append(printed, Fail("close_device"))
    /\ pc' = AfterClosePc
    /\ UNCHANGED <<env, hist, payloads, stateFile, device, batch, accumulated_output, output,
                   finished, state, pending, outcome, engineLog, interrupts>>

\* the finally clause is left: the pending return or exception resumes, else line 192
P_leave ==
    /\ pc = "p_closed"
    /\ End(CASE pending = "return1" -> Return(1)
             [] pending = "none" -> Return(0)
             [] OTHER -> Raise(pending))
    /\ UNCHANGED <<env, hist, payloads, stateFile, device, batch, accumulated_output, output,
                   finished, state, pending, calls, engineLog, printed, interrupts>>

\* positions of zork_persistent.main inside the try of line 84 (its body)
TryBodyP == {"p_load_game", "p_check_state", "p_read_state", "p_set_state",
             "p_loop_init", "p_while", "p_execute_batch", "p_extract", "p_increment",
             "p_check_finished", "p_get_state", "p_write_state", "p_report"}
LoopP == {"p_while", "p_execute_batch", "p_extract", "p_increment", "p_check_finished"}

\* KeyboardInterrupt is no Exception: no handler of the file catches it
P_interrupt ==
    /\ prog = "persistent"
    /\ pc # "done"
    /\ Len(interrupts) < MaxInterrupts
    /\ interrupts' = Append(interrupts, pc)
    /\ IF pc \in TryBodyP
       THEN /\ pending' = "KeyboardInterrupt"
            /\ pc' = "p_finally"
            /\ UNCHANGED outcome
       ELSE /\ End(Raise("KeyboardInterrupt"))
            /\ UNCHANGED pending
    /\ UNCHANGED <<env, hist, payloads, stateFile, device, batch, accumulated_output, output,
                   finished, state, calls, engineLog, printed>>

\* ------------------------------------------------------------ zork_python.main

Y_check_exe ==
    /\ pc = "y_check_exe"
    /\ IF ~exeFile
       THEN /\ printed' = Append(printed, Fail("executable"))
            /\ End(Return(1))
       ELSE /\ pc' = "y_check_game"
            /\ UNCHANGED <<printed, outcome>>
    /\ UNCHANGED <<env, hist, payloads, stateFile, device, batch, accumulated_output, output,
                   finished, state, pending, calls, engineLog, interrupts>>

\* where main goes when the game file is there
GameFoundPcY == "y_clear_state"

Y_check_game ==
    /\ pc = "y_check_game"
    /\ IF ~gameFile
       THEN /\ printed' = Append(printed, Fail("game_file"))
            /\ End(Return(1))
       ELSE /\ pc' = GameFoundPcY
            /\ UNCHANGED <<printed, outcome>>
    /\ UNCHANGED <<env, hist, payloads, stateFile, device, batch, accumulated_output, output,
                   finished, state, pending, calls, engineLog, interrupts>>

\* lines 144-146: Path(STATE_FILE).unlink(), outside every try
Y_clear_state ==
    /\ pc = "y_clear_state"
    /\ IF stateFile.exists
       THEN \E ok \in BOOLEAN :
               /\ calls' = Append(calls, Call("unlink_state_file", "", ok))
               /\ IF ok
                  THEN /\ stateFile' = Absent
                       /\ pc' = "y_loop_init"
                       /\ UNCHANGED outcome
                  ELSE /\ End(Raise("Exception"))
                       /\ UNCHANGED stateFile
       ELSE /\ pc' = "y_loop_init"
            /\ UNCHANGED <<stateFile, calls, outcome>>
    /\ UNCHANGED <<env, hist, payloads, device, batch, accumulated_output, output, finished,
                   state, pending, engineLog, printed, interrupts>>

Y_loop_init ==
    /\ pc = "y_loop_init"
    /\ accumulated_output' = ""
    /\ batch' = 1
    /\ pc' = "y_while"
    /\ UNCHANGED <<env, hist, payloads, stateFile, device, output, finished, state, pending,
                   outcome, calls, engineLog, printed, interrupts>>

Y_while ==
    /\ pc = "y_while"
    /\ pc' = IF LoopGuard(batch) THEN "y_run_batch" ELSE "y_report"
    /\ UNCHANGED <<env, hist, payloads, stateFile, device, batch, accumulated_output, output,
                   finished, state, pending, outcome, calls, engineLog, printed,
                   interrupts>>

\* run_zork_batch(batch): one engine process. The engine loads and saves STATE_FILE
\* itself (module docstring, lines 28-32). subprocess.run may raise OSError.
Y_run_zork_batch ==
    /\ pc = "y_run_batch"
    /\ \/ \E r \in RawOutputs, b \in Blobs :              \* returncode = 0
             /\ calls' = Append(calls, Call("run", "", TRUE))
             /\ output' = OutputTextY(r)
             /\ finished' = IsFinishedY(r, batch)
             /\ engineLog' = Append(engineLog, Answer(TRUE, r, ""))
             /\ stateFile' = File(b)
             /\ pc' = "y_accumulate"
             /\ UNCHANGED <<printed, outcome>>
       \/ \E r \in FailedOutputs :                            \* returncode # 0
             /\ calls' = Append(calls, Call("run", "", FALSE))
             /\ output' = ""
             /\ finished' = FALSE
             /\ engineLog' = Append(engineLog, Answer(FALSE, r, "returned"))
             /\ printed' = Append(printed, Fail("batch"))
             /\ pc' = "y_accumulate"
             /\ UNCHANGED <<stateFile, outcome>>
       \/ /\ calls' = Append(calls, Call("run", "", FALSE))    \* subprocess.run raises
          /\ engineLog' = Append(engineLog, Answer(FALSE, "", "raised"))
          /\ End(Raise("Exception"))
          /\ UNCHANGED <<output, finished, stateFile, printed>>
    /\ UNCHANGED <<env, hist, payloads, device, batch, accumulated_output, state, pending,
                   interrupts>>

\* lines 161-162
AccumulateY(acc, out) == IF out # "" THEN acc \o out \o "\n" ELSE acc

Y_accumulate ==
    /\ pc = "y_accumulate"
    /\ accumulated_output' = AccumulateY(accumulated_output, output)
    /\ payloads' = Append(payloads, output)
    /\ pc' = "y_check_finished"
    /\ UNCHANGED <<env, hist, stateFile, device, batch, output, finished, state,
                   pending, outcome, calls, engineLog, printed, interrupts>>

Y_check_finished ==
    /\ pc = "y_check_finished"
    /\ IF finished
       THEN /\ printed' = Append(printed, GameFinished(batch))
            /\ pc' = "y_report"
       ELSE /\ pc' = "y_increment"
            /\ UNCHANGED printed
    /\ UNCHANGED <<env, hist, payloads, stateFile, device, batch, accumulated_output, output,
                   finished, state, pending, outcome, calls, engineLog, interrupts>>

Y_increment ==
    /\ pc = "y_increment"
    /\ batch' = batch + 1
    /\ pc' = "y_while"
    /\ UNCHANGED <<env, hist, payloads, stateFile, device, accumulated_output, output, finished,
                   state, pending, outcome, calls, engineLog, printed, interrupts>>

Y_report ==
    /\ pc = "y_report"
    /\ printed' = Append(printed, Report(accumulated_output, batch))
    /\ pc' = "y_return"
    /\ UNCHANGED <<env, hist, payloads, stateFile, device, batch, accumulated_output, output,
                   finished, state, pending, outcome, calls, engineLog, interrupts>>

\* line 187
Y_return ==
    /\ pc = "y_return"
    /\ End(Return(0))
    /\ UNCHANGED <<env, hist, payloads, stateFile, device, batch, accumulated_output, output,
                   finished, state, pending, calls, engineLog, printed, interrupts>>

\* positions of zork_python.main inside the try of line 155
TryBodyY == {"y_while", "y_run_batch", "y_accumulate", "y_check_finished",
             "y_increment", "y_report"}
LoopY == {"y_while", "y_run_batch", "y_accumulate", "y_check_finished", "y_increment"}

\* what the handler of line 182 returns
InterruptedY == Return(130)

Y_interrupt ==
    /\ prog = "python"
    /\ pc # "done"
    /\ Len(interrupts) < MaxInterrupts
    /\ interrupts' = Append(interrupts, pc)
    /\ IF pc \in TryBodyY
       THEN /\ printed' = Append(printed, Msg("interrupted", "", 0, ""))
            /\ End(InterruptedY)
       ELSE /\ End(Raise("KeyboardInterrupt"))
            /\ UNCHANGED printed
    /\ UNCHANGED <<env, hist, payloads, stateFile, device, batch, accumulated_output, output,
                   finished, state, pending, calls, engineLog>>

\* ------------------------------------------------------------ sessions

\* The process has exited; the same orchestrator is started again later.
NewSession ==
    /\ pc = "done"
    /\ session < MaxSessions
    /\ session' = session + 1
    /\ stateFile0' = stateFile
    /\ prev' = IF interrupts = <<>> /\ SessionClass \in {"sentinel", "bounded"}
               THEN [class |-> SessionClass, obs |-> Observable]
               ELSE NoPrev
    /\ exported' = exported \cup (IF \E i \in 1..Len(calls) :
                                        calls[i].op = "get_state" /\ calls[i].ok
                                  THEN {state} ELSE {})
    /\ pc' = Start(prog)
    /\ device' = "unbound"
    /\ batch' = 0
    /\ accumulated_output' = ""
    /\ output' = ""
    /\ finished' = FALSE
    /\ state' = ""
    /\ pending' = "none"
    /\ outcome' = Running
    /\ calls' = <<>>
    /\ engineLog' = <<>>
    /\ payloads' = <<>>
    /\ printed' = <<>>
    /\ interrupts' = <<>>
    /\ UNCHANGED <<env, stateFile>>

Next ==
    \/ P_check_game \/ P_init_device \/ P_init_done \/ P_load_game
    \/ P_check_state \/ P_read_state \/ P_set_state \/ P_loop_init \/ P_while
    \/ P_execute_batch \/ P_extract \/ P_increment \/ P_check_finished
    \/ P_get_state \/ P_write_state \/ P_report \/ P_finally \/ P_close_device
    \/ P_leave \/ P_interrupt
    \/ Y_check_exe \/ Y_check_game \/ Y_clear_state \/ Y_loop_init \/ Y_while
    \/ Y_run_zork_batch \/ Y_accumulate \/ Y_check_finished \/ Y_increment
    \/ Y_report \/ Y_return \/ Y_interrupt
    \/ NewSession

Spec == Init /\ [][Next]_vars

\* ------------------------------------------------------------ the parsers alone

\* Raw outputs of at most MaxLines lines, each line one of LineKinds: a start
\* marker inside a side border, a bottom border, a top border, text, a blank
\* line, a side-border line, and a bottom border that carries the marker.
MaxLines == 4
LineKinds ==
    { "| ACCUMULATED ZORK OUTPUT", "}==}", "{==}", " West ", "", "| side",
      "} ACCUMULATED ZORK OUTPUT" }
Inputs == {Join(ls) : ls \in UNION {[1..n -> LineKinds] : n \in 1..MaxLines}}

ParseInit ==
    /\ prog \in {"persistent", "python"}
    /\ output \in Inputs
    /\ pc = "parse"
    /\ gameFile = TRUE
    /\ exeFile = TRUE
    /\ stateFile = Absent
    /\ device = "unbound"
    /\ batch = 1
    /\ accumulated_output = ""
    /\ finished = FALSE
    /\ state = ""
    /\ pending = "none"
    /\ outcome = Running
    /\ calls = <<>>
    /\ engineLog = <<>>
    /\ payloads = <<>>
    /\ printed = <<>>
    /\ interrupts = <<>>
    /\ session = 1
    /\ stateFile0 = stateFile
    /\ prev = NoPrev
    /\ exported = {}

\* lines 123-135 of zork_persistent.main applied to one raw output
ParseP ==
    /\ prog = "persistent"
    /\ pc = "parse"
    /\ payloads' = <<BatchTextP(output)>>
    /\ finished' = IsTerminalP(output, batch + 1)
    /\ pc' = "parsed"
    /\ UNCHANGED <<env, hist, stateFile, device, batch, accumulated_output, output, state,
                   pending, outcome, calls, engineLog, printed, interrupts>>

\* lines 85-108 of run_zork_batch applied to one raw output
ParseY ==
    /\ prog = "python"
    /\ pc = "parse"
    /\ payloads' = <<OutputTextY(output)>>
    /\ finished' = IsFinishedY(output, batch)
    /\ pc' = "parsed"
    /\ UNCHANGED <<env, hist, stateFile, device, batch, accumulated_output, output, state,
                   pending, outcome, calls, engineLog, printed, interrupts>>

ParseNext == ParseP \/ ParseY

ParseSpec == ParseInit /\ [][ParseNext]_vars

\* ------------------------------------------------------------ properties

IsP == prog = "persistent"
IsY == prog = "python"
Done == pc = "done"
NoInterrupt == interrupts = <<>>

Pos(op) == {i \in 1..Len(calls) : calls[i].op = op}
Raised(op) == \E i \in Pos(op) : ~calls[i].ok
Returned(op) == \E i \in Pos(op) : calls[i].ok
HasPrinted(m) == \E i \in 1..Len(printed) : printed[i] = m
Reports == {i \in 1..Len(printed) : printed[i].tag = "report"}

\* batch executions of the session: execute_batch calls, engine processes
BatchRuns == Count("execute_batch") + Count("run")

HasSentinel(r) == Contains(r, "Game complete")

RECURSIVE Concatenated(_)
\* the non-empty payloads of ps, in order, each followed by a newline
Concatenated(ps) ==
    IF Len(ps) = 0 THEN ""
    ELSE Concatenated(SubSeq(ps, 1, Len(ps) - 1))
         \o (IF ps[Len(ps)] # "" THEN ps[Len(ps)] \o "\n" ELSE "")

\* C1: in zork_persistent.main, with no interrupt, a session whose init_device
\* returned a handle has called close_device exactly once when main ends, whatever
\* raised in between; close_device is never called without a handle, and never twice.
C1_CloseOncePerAcquire ==
    IsP =>
      /\ device = "unbound" => Count("close_device") = 0
      /\ Count("close_device") <= 1
      /\ (Done /\ NoInterrupt /\ device = "handle") => Count("close_device") = 1

\* a session whose 2nd execute_batch raised, and which closed the device
C1_Witness ==
    /\ IsP /\ Done /\ NoInterrupt /\ device = "handle"
    /\ Len(engineLog) = 2 /\ ~engineLog[2].ok
    /\ Count("close_device") = 1

\* a session whose set_state raised (caught by no handler), and which closed the device
C1_WitnessUncaught ==
    /\ IsP /\ Done /\ NoInterrupt /\ Raised("set_state")
    /\ outcome = Raise("Exception")
    /\ Count("close_device") = 1

\* C2: in zork_persistent.main, a KeyboardInterrupt arriving anywhere after
\* init_device returned a handle still leaves close_device called exactly once when
\* the session has ended.
C2_ReleaseUnderInterrupt ==
    (IsP /\ Done /\ device = "handle") => Count("close_device") = 1

\* C3: when every engine call succeeds and the k-th output contains "Game complete",
\* exactly k batch executions are made in the session: none follows the k-th.
C3_StopsAtSentinel ==
    \A k \in 1..Len(engineLog) :
        (AllOk /\ HasSentinel(engineLog[k].raw)) => BatchRuns = k

\* MAX_BATCHES = 3, sentinel in the 2nd output: the session ended after 2 calls
C3_Witness ==
    /\ IsP /\ Done /\ NoInterrupt /\ AllOk
    /\ Len(engineLog) = 2
    /\ ~HasSentinel(engineLog[1].raw)
    /\ HasSentinel(engineLog[2].raw)
    /\ Count("execute_batch") = 2
    /\ outcome = Return(0)

\* C4: a session of MAX_BATCHES successful batches without the sentinel ends with
\* an observable result (exit code, completion status reported) different from that
\* of a session in which the engine emitted the sentinel.
C4_BoundedDistinguishable ==
    (Done /\ NoInterrupt /\ SessionClass = "bounded" /\ prev.class = "sentinel")
        => Observable # prev.obs

\* C5: in zork_persistent.main, when set_state raises, the session goes on: at least
\* one execute_batch call, the save attempt and the final report follow.
C5_RestoreFailureNonFatal ==
    (IsP /\ Done /\ NoInterrupt /\ Raised("set_state")) =>
        /\ Count("execute_batch") >= 1
        /\ Count("get_state") = 1
        /\ Reports # {}
        /\ outcome.kind = "return"

\* C6: in zork_persistent.main, when execute_batch raises on batch k, no further
\* execute_batch call is made, the accumulated output is the payloads of batches
\* 1..k-1 in order and is what the final report prints, get_state is called (and the
\* state file written with what it returned), and close_device is called after that.
C6_ExecFailureEndsLoop ==
    IsP => \A k \in 1..Len(engineLog) :
        ~engineLog[k].ok =>
            /\ k = Len(engineLog)
            /\ Count("execute_batch") = k
            /\ \A j \in 1..(k - 1) : engineLog[j].ok
            /\ Len(payloads) = k - 1
            /\ accumulated_output = Concatenated(payloads)
            /\ (Done /\ NoInterrupt) =>
                  /\ Cardinality(Reports) = 1
                  /\ \A i \in Reports :
                        printed[i].text = Concatenated(payloads)
                  /\ Count("get_state") = 1
                  /\ Returned("get_state") => Count("write_state_file") = 1
                  /\ Count("close_device") = 1
                  /\ \A e \in Pos("execute_batch"), g \in Pos("get_state"),
                        c \in Pos("close_device") : e < g /\ g < c
                  /\ \A g \in Pos("get_state"), w \in Pos("write_state_file"),
                        c \in Pos("close_device") : g < w /\ w < c

\* batches 1 and 2 printed text, batch 3 raised: the report holds batches 1-2
C6_Witness ==
    /\ IsP /\ Done /\ NoInterrupt
    /\ Len(engineLog) = 3 /\ engineLog[1].ok /\ engineLog[2].ok /\ ~engineLog[3].ok
    /\ accumulated_output = "West\nWest\n"
    /\ HasPrinted(Report("West\nWest\n", 2))
    /\ Count("write_state_file") = 1
    /\ Count("close_device") = 1

\* C7: in zork_python.main, when the engine process of batch k exits with a non-zero
\* return code, no engine process is started for a later batch, and the report prints
\* the output of batches 1..k-1.
C7_ReturnedErrorEndsLoop ==
    IsY => \A k \in 1..Len(engineLog) :
        engineLog[k].err = "returned" =>
            /\ k = Len(engineLog)
            /\ (Done /\ NoInterrupt) =>
                  \A i \in Reports :
                      printed[i].text = Concatenated(SubSeq(payloads, 1, k - 1))

\* C8: with the game file missing (in zork_python, also the executable), the session
\* makes no engine or storage call, leaves the state file as it was, and main
\* returns 1.
C8_MissingPayloadAborts ==
    ((IsP /\ ~gameFile) \/ (IsY /\ (~exeFile \/ ~gameFile))) =>
        /\ calls = <<>>
        /\ engineLog = <<>>
        /\ device = "unbound"
        /\ stateFile = stateFile0
        /\ (Done /\ NoInterrupt) => outcome = Return(1)

\* zork_python with the executable but no game file, a state file on disk
C8_Witness ==
    /\ IsY /\ Done /\ NoInterrupt /\ exeFile /\ ~gameFile
    /\ stateFile.exists
    /\ outcome = Return(1)

\* zork_persistent with no game file
C8_WitnessP ==
    /\ IsP /\ Done /\ NoInterrupt /\ ~gameFile
    /\ outcome = Return(1)

\* C9: after an interrupt arriving while the batch loop runs, main returns a
\* dedicated exit code, neither 0 nor 1; it does not end by an exception.
C9_GracefulInterrupt ==
    (Done /\ Len(interrupts) >= 1 /\ interrupts[1] \in (LoopP \cup LoopY)) =>
        /\ outcome.kind = "return"
        /\ outcome.value \notin {0, 1}

\* C10: in zork_persistent.main, a failing get_state or state-file write is reported
\* and changes nothing else: the report prints the whole accumulated output,
\* close_device is called once, and main returns 0 as it does when the save succeeds.
C10_SaveBestEffort ==
    (IsP /\ Done /\ NoInterrupt /\ Count("get_state") >= 1) =>
        /\ outcome = Return(0)
        /\ Count("close_device") = 1
        /\ Len(payloads) = Cardinality({k \in 1..Len(engineLog) : engineLog[k].ok})
        /\ accumulated_output = Concatenated(payloads)
        /\ Cardinality(Reports) = 1
        /\ \A i \in Reports : printed[i].text = accumulated_output
        /\ (Raised("get_state") \/ Raised("write_state_file")) <=> HasPrinted(Fail("save"))

\* the write failed part way after two batches of text
C10_Witness ==
    /\ IsP /\ Done /\ NoInterrupt
    /\ Raised("write_state_file")
    /\ stateFile.exists /\ Len(stateFile.data) = 1
    /\ accumulated_output = "West\nWest\n"
    /\ HasPrinted(Report("West\nWest\n", 2))
    /\ outcome = Return(0)

\* get_state raised
C10_WitnessGetState ==
    /\ IsP /\ Done /\ NoInterrupt
    /\ Raised("get_state")
    /\ accumulated_output # ""
    /\ outcome = Return(0)
Least(S) == CHOOSE x \in S : \A y \in S : x <= y

IsMarkerY(line) == Contains(line, "ACCUMULATED ZORK OUTPUT")
IsContentY(line) ==
    ~IsMarkerY(line) /\ ~StartsWith(line, BoxTop) /\ ~StartsWith(line, BoxSide)

\* The first frame of raw: the content lines after the first start-marker line and
\* before the first end-marker line after it (to the end when there is none),
\* joined and trimmed. A line that carries the start marker counts as a marker.
FirstFrameY(raw) ==
    LET lines == Split(raw)
        starts == {i \in 1..Len(lines) : IsMarkerY(lines[i])}
    IN  IF starts = {} THEN ""
        ELSE LET s == Least(starts)
                 ends == {j \in (s + 1)..Len(lines) :
                              StartsWith(lines[j], BoxBottom) /\ ~IsMarkerY(lines[j])}
                 e == IF ends = {} THEN Len(lines) + 1 ELSE Least(ends)
             IN  Strip(Join(SelectSeq(SubSeq(lines, s + 1, e - 1), IsContentY)))

C11_WitnessLaterRegion ==
    /\ IsY /\ pc = "parsed"
    /\ output = "| ACCUMULATED ZORK OUTPUT\n}==}\n| ACCUMULATED ZORK OUTPUT\n West "
    /\ payloads = <<"">>

\* raw up to and including the first end-of-section line (one with the bottom
\* border) after the first start-marker line of zork_persistent.main
UpToFirstEndP(raw) ==
    LET lines == Split(raw)
        starts == {i \in 1..Len(lines) : IsStartP(lines[i])}
    IN  IF starts = {} THEN raw
        ELSE LET s == Least(starts)
                 ends == {j \in (s + 1)..Len(lines) :
                              Contains(lines[j], BoxBottom) /\ ~IsStartP(lines[j])}
             IN  IF ends = {} THEN raw ELSE Join(SubSeq(lines, 1, Least(ends)))

\* C12: the parser of zork_persistent.main stops capturing at the first
\* end-of-section marker after the first start marker: what follows that marker
\* in the raw output, later regions included, adds nothing to the payload.
C12_TakeFirstFrameP ==
    (IsP /\ pc = "parsed") => payloads[1] = BatchTextP(UpToFirstEndP(output))

\* C13: a raw output that contains "Game complete", wherever it stands and whatever
\* the payload, makes its batch the last one: no batch is executed after it. The
\* output of every engine call that returned is meant, in both orchestrators.
C13_SentinelAlwaysTerminal ==
    \A k \in 1..Len(engineLog) :
        (engineLog[k].err # "raised" /\ HasSentinel(engineLog[k].raw))
            => k = Len(engineLog)

\* C14: in zork_python.main, once a batch has been started, main does not end
\* without the final report, and the report carries the accumulated payload.
C14_ReportNeverDropped ==
    (IsY /\ Done /\ Count("run") >= 1) =>
        \E i \in Reports : printed[i].text = accumulated_output

EngineOps ==
    {"init_device", "load_game", "set_state", "execute_batch", "get_state",
     "close_device"}
Rank(op) ==
    CASE op = "init_device" -> 1
      [] op = "load_game" -> 2
      [] op = "set_state" -> 3
      [] op = "execute_batch" -> 4
      [] op = "get_state" -> 5
      [] op = "close_device" -> 6
IsEngineCall(c) == c.op \in EngineOps

\* C15: zork_persistent.main calls the engine in the order init_device, load_game,
\* at most one set_state, any number of execute_batch, at most one get_state,
\* close_device: no set_state after an execute_batch, no get_state before the last
\* execute_batch, nothing after close_device, nothing without a handle.
C15_EngineCallOrder ==
    IsP =>
      LET e == SelectSeq(calls, IsEngineCall)
      IN  /\ \A i \in 1..(Len(e) - 1) :
                \/ Rank(e[i].op) < Rank(e[i + 1].op)
                \/ e[i].op = "execute_batch" /\ e[i + 1].op = "execute_batch"
          /\ Len(e) >= 1 => e[1].op = "init_device"
          /\ Len(e) >= 2 => e[1].ok
          /\ (Len(e) >= 2 /\ e[2].op # "close_device") => e[2].op = "load_game"
          /\ (Len(e) >= 3 /\ e[3].op # "close_device") => e[2].ok

\* a full session: restore, two batches, export, release
C15_Witness ==
    /\ IsP /\ Done
    /\ Returned("set_state")
    /\ Count("execute_batch") = 2
    /\ Returned("get_state")
    /\ Count("close_device") = 1

PcsP == <<"p_check_game", "p_init", "p_init_done", "p_load_game", "p_check_state",
          "p_read_state", "p_set_state", "p_loop_init">>
PcsLoopP == <<"p_while", "p_execute_batch", "p_extract", "p_increment",
              "p_check_finished">>
PcsEndP == <<"p_get_state", "p_write_state", "p_report", "p_finally",
             "p_close_device", "p_closed">>
PcsY == <<"y_check_exe", "y_check_game", "y_clear_state", "y_loop_init">>
PcsLoopY == <<"y_while", "y_run_batch", "y_accumulate", "y_check_finished",
              "y_increment">>
PcsEndY == <<"y_report", "y_return">>
Index(seq, x) == CHOOSE i \in 1..Len(seq) : seq[i] = x
InSeq(seq, x) == \E i \in 1..Len(seq) : seq[i] = x
\* pc stands at a statement of main
Labelled == \E seq \in {PcsP, PcsLoopP, PcsEndP, PcsY, PcsLoopY, PcsEndY} : InSeq(seq, pc)
LoopSpan == 5 * (MAX_BATCHES + 1)
ProgressEnd == 20 + LoopSpan

\* How far the session is: the statements before the loop, then five steps per
\* iteration (zork_persistent tests the break after its increment), then the
\* statements after the loop; ProgressEnd once main has ended.
Progress ==
    IF pc = "done" THEN ProgressEnd
    ELSE IF InSeq(PcsP, pc) THEN Index(PcsP, pc)
    ELSE IF InSeq(PcsY, pc) THEN Index(PcsY, pc)
    ELSE IF pc = "p_check_finished" THEN 10 + 5 * (batch - 2) + 5
    ELSE IF InSeq(PcsLoopP, pc) THEN 10 + 5 * (batch - 1) + Index(PcsLoopP, pc)
    ELSE IF InSeq(PcsLoopY, pc) THEN 10 + 5 * (batch - 1) + Index(PcsLoopY, pc)
    ELSE IF InSeq(PcsEndP, pc) THEN 10 + LoopSpan + Index(PcsEndP, pc)
    ELSE 10 + LoopSpan + Index(PcsEndY, pc)

\* C16: in both orchestrators a session executes at most MAX_BATCHES batches, and
\* when every call returns the session ends: a session that has not ended stands
\* at a statement of main, every step brings it closer to its end, and the
\* distance is bounded.
C16_BoundedAndTerminating ==
    /\ [](/\ BatchRuns <= MAX_BATCHES
          /\ Progress <= ProgressEnd
          /\ Done \/ Labelled)
    /\ [][session' = session => Progress' > Progress]_vars

\* the batch budget is used up by batches that all fail
C16_Witness ==
    /\ IsY /\ Done /\ outcome = Return(0)
    /\ Count("run") = MAX_BATCHES
    /\ \A k \in 1..Len(engineLog) : ~engineLog[k].ok

C16_WitnessP ==
    /\ IsP /\ Done /\ outcome = Return(0)
    /\ Count("execute_batch") = MAX_BATCHES

AfterLoopP == {"p_get_state", "p_write_state", "p_report"}
ReturnedBatches == Cardinality({i \in Pos("execute_batch") : calls[i].ok})

\* C17 as stated: the batch counter of zork_persistent.main starts at 1, stays
\* within MAX_BATCHES + 1 and is incremented once per attempted batch, failed
\* ones included, so at loop exit counter - 1 is the number of execute_batch calls.
C17_CounterCountsAttempts ==
    IsP =>
      /\ pc \in LoopP \cup AfterLoopP => batch \in 1..(MAX_BATCHES + 1)
      /\ pc \in AfterLoopP => batch - 1 = Count("execute_batch")

\* C17 amended: the batch counter of zork_persistent.main starts at 1, never
\* decreases, stays within MAX_BATCHES + 1 and is incremented once per batch whose
\* execute_batch returned (a terminal batch included), not for one that raised:
\* at loop exit counter - 1 is the number of execute_batch calls that returned.
C17_CounterCountsReturned ==
    /\ [](IsP =>
            /\ pc \in LoopP \cup AfterLoopP => batch \in 1..(MAX_BATCHES + 1)
            /\ pc \in {"p_while", "p_execute_batch", "p_check_finished"} \cup AfterLoopP
                  => batch - 1 = ReturnedBatches
            /\ pc \in {"p_extract", "p_increment"} => batch = ReturnedBatches)
    /\ [][(IsP /\ session' = session) => batch' \in {batch, batch + 1}]_vars

\* the loop is left by a failed second batch: two calls, counter 2
C17_Witness ==
    /\ IsP /\ pc = "p_report"
    /\ Count("execute_batch") = 2
    /\ ReturnedBatches = 1
    /\ batch = 2

IsPrefix(a, b) == Len(a) <= Len(b) /\ SubSeq(b, 1, Len(a)) = a
Failures(what) == Cardinality({i \in 1..Len(printed) : printed[i] = Fail(what)})
FailedRuns(op) == Cardinality({i \in Pos(op) : ~calls[i].ok})

\* C18: in both orchestrators the accumulator is empty when the session starts and
\* is always the non-empty payloads so far, in order, each followed by a newline;
\* an empty payload leaves it as it is and prints no failure; within a session
\* every step keeps what was accumulated as a prefix.
C18_AccumulatorAppendOnly ==
    /\ [](/\ accumulated_output = Concatenated(payloads)
          /\ IsP => Failures("execute_batch") = FailedRuns("execute_batch")
          /\ IsY => Failures("batch") = Cardinality({k \in 1..Len(engineLog) :
                                                        engineLog[k].err = "returned"}))
    /\ [][session' = session => IsPrefix(accumulated_output, accumulated_output')]_vars

\* an empty payload between two non-empty ones
C18_Witness ==
    /\ Len(payloads) = 3
    /\ payloads[1] # "" /\ payloads[2] = "" /\ payloads[3] # ""
    /\ accumulated_output = payloads[1] \o "\n" \o payloads[3] \o "\n"
    /\ FailedRuns("execute_batch") = 0 /\ FailedRuns("run") = 0

\* C19: in zork_python.main, the N of "Completed N batches" in the final report is
\* the number of batches that were executed and never exceeds MAX_BATCHES,
\* whichever batches failed.
C19_ReportedCountIsExecuted ==
    IsY => \A i \in Reports :
              /\ printed[i].n = Count("run")
              /\ printed[i].n <= MAX_BATCHES

\* C20: in consecutive sessions of zork_persistent.main on one state file, every
\* blob passed to set_state is a complete blob that get_state returned in an
\* earlier session; a truncated file is never imported.
C20_ImportsOnlyExported ==
    IsP => \A i \in Pos("set_state") : calls[i].arg \in exported

====
